---- MODULE Spec2Model ----
(***************************************************************************)
(* Model of the diesel CRUD example (src/src/main.rs): the users table of  *)
(* a SQLite store, several connections to it, and the four operations     *)
(* create_user, read_users, update_user_created_at and                     *)
(* delete_user_by_user_id.  Every SQL statement is one atomic step of the  *)
(* store; create_user issues three statements, so steps of other           *)
(* connections can fall between them.                                      *)
(***************************************************************************)
EXTENDS Integers, FiniteSets, Sequences, TLC

\* ---------------------------------------------------------------- bounds
MaxId == 2
MaxClock == 1
TicksPerSec == 2
\* ids assigned in the create-only runs of SpecInsert
MaxInserts == 3

Conns == {1, 2}
Emails == {"a@example.com", "b@example.com"}
MoreEmails == Emails \cup {"c@example.com"}
\* ids a caller may pass to update / delete (0 never names a row)
UserIds == 0..MaxId

\* --------------------------------------------------------------- values
NULL == -1
NoUser == [id |-> 0, email |-> "", created_at |-> NULL]
NoRow == [id |-> [hi |-> 0, lo |-> 0], email |-> "", created_at |-> NULL]
NoRet == [op |-> "none", arg_email |-> "", arg_id |-> 0, kind |-> "none",
          err |-> "none", user |-> NoUser, rows |-> {}]

VARIABLES
    table,        \* the rows of users: records [id, email, created_at]
    seq,          \* the store's autoincrement high-water mark
    last_rowid,   \* per connection: sqlite last_insert_rowid()
    now,          \* the wall clock, in ticks
    pc,           \* per connection: position of the call in progress
    new_user_form,\* per connection: the email argument of its create_user call
    new_user_id,  \* per connection: the local of create_user (i64), 0 outside it
    ret,          \* per connection: the value its call returned, a created user kept
    inserted,     \* history: the row its create_user call inserted
    deleted,      \* history: every id whose row a delete removed
    undo          \* history: per connection, the table before its create_user

vars == <<table, seq, last_rowid, now, pc, new_user_form, new_user_id, ret,
          inserted, deleted, undo>>

\* ---------------------------------------------------------------- schema
\* A 64-bit integer of the store (a rowid): hi * 2^31 + lo, 0 <= lo < 2^31.
I64(h, l) == [hi |-> h, lo |-> l]
I32Max == 2147483647

\* the successor of a 64-bit integer
I64Succ(x) == IF x.lo = I32Max THEN I64(x.hi + 1, 0) ELSE I64(x.hi, x.lo + 1)

\* an i32 bound into a statement, widened (sign-extended) to 64 bits
FromI32(k) == IF k >= 0 THEN I64(0, k) ELSE I64(-1, (k + I32Max) + 1)

\* `x as i32`: two's-complement narrowing, the low 32 bits of x
AsI32(x) == IF x.hi % 2 = 0 THEN x.lo ELSE (x.lo - I32Max) - 1

\* users (id) { id -> Integer, email -> Text, created_at -> Timestamp }:
\* a stored row; its id is the 64-bit rowid
Row(i, e, t) == [id |-> i, email |-> e, created_at |-> t]

\* #[derive(Queryable)] struct User { id: i32, email, created_at }:
\* a row as loaded into the program, the id read as a 32-bit Integer
User(r) == [id |-> AsI32(r.id), email |-> r.email, created_at |-> r.created_at]

\* variant: the column has no UNIQUE constraint
EmailNeverTaken(e) == FALSE

\* email TEXT NOT NULL UNIQUE
EmailTaken(e) == \E r \in table : r.email = e


\* variant: a plain INTEGER PRIMARY KEY, one more than the largest id in the table
NextRowIdOfTable ==
    IF table = {} THEN I64(0, 1)
    ELSE I64Succ((CHOOSE r \in table :
                     \A q \in table : q.id.hi < r.id.hi
                                      \/ (q.id.hi = r.id.hi /\ q.id.lo <= r.id.lo)).id)

\* id INTEGER PRIMARY KEY AUTOINCREMENT: one more than the largest id ever used
NextRowId == I64Succ(seq)

\* the ids the store has assigned so far
Assigned == {r.id : r \in table} \cup deleted

\* created_at TIMESTAMP NOT NULL DEFAULT CURRENT_TIMESTAMP (whole seconds)
CurrentTimestamp == (now \div TicksPerSec) * TicksPerSec

\* chrono::Utc::now().naive_utc(): full clock resolution
UtcNow == now

\* users.find(k) / users.filter(id.eq(k)): the rows whose primary key equals k
FindIn(t, k) == {r \in t : r.id = FromI32(k)}
Find(k) == FindIn(table, k)

\* order of 64-bit integers
I64Leq(x, y) == x.hi < y.hi \/ (x.hi = y.hi /\ x.lo <= y.lo)

Ok(o, e, k, u, rs) == [op |-> o, arg_email |-> e, arg_id |-> k, kind |-> "Ok",
                       err |-> "none", user |-> u, rows |-> rs]
Err(o, e, k, x) == [op |-> o, arg_email |-> e, arg_id |-> k, kind |-> "Err",
                    err |-> x, user |-> NoUser, rows |-> {}]

\* --------------------------------------------------------------- history
\* undo[c] follows one create_user of connection c and what comes after it:
\* rows is the table when the call was made, id the id of the user it returned.
\* It stays "live" while nothing but updates of that user touch the table and
\* becomes "undone" when c deletes that user; any other write ends it.
UndoNone == [phase |-> "none", rows |-> {}, id |-> 0, updated |-> FALSE]
UndoLive(t) == [phase |-> "live", rows |-> t, id |-> 0, updated |-> FALSE]

\* connection c wrote to the table inside its create_user
UndoAfterInsert(c) == [d \in Conns |-> IF d = c THEN undo[c] ELSE UndoNone]

\* the create_user of connection c returned r
UndoAfterFind(c, r) ==
    [undo EXCEPT ![c] = IF r.kind = "Ok" /\ @.phase = "live"
                        THEN [@ EXCEPT !.id = r.user.id] ELSE UndoNone]

\* connection c updated the row with id k
UndoAfterUpdate(c, k) ==
    [d \in Conns |-> IF d = c /\ undo[c].phase = "live" /\ undo[c].id = k /\ k # 0
                     THEN [undo[c] EXCEPT !.updated = TRUE] ELSE UndoNone]

\* connection c deleted the row with id k
UndoAfterDelete(c, k) ==
    [d \in Conns |-> IF d = c /\ undo[c].phase = "live" /\ undo[c].id = k /\ k # 0
                     THEN [undo[c] EXCEPT !.phase = "undone"] ELSE UndoNone]

\* ------------------------------------------------------------------ init
Init ==
    /\ table = {}
    /\ seq = I64(0, 0)
    /\ last_rowid = [c \in Conns |-> I64(0, 0)]
    /\ now \in 0..1
    /\ pc = [c \in Conns |-> "idle"]
    /\ new_user_form = [c \in Conns |-> ""]
    /\ new_user_id = [c \in Conns |-> I64(0, 0)]
    /\ ret = [c \in Conns |-> NoRet]
    /\ inserted = [c \in Conns |-> NoRow]
    /\ deleted = {}
    /\ undo = [c \in Conns |-> UndoNone]

\* --------------------------------------------------------------- actions
\* the clock advances
Tick ==
    /\ now < MaxClock
    /\ now' = now + 1
    /\ UNCHANGED <<table, seq, last_rowid, pc, new_user_form, new_user_id,
                   ret, inserted, deleted>>
    /\ UNCHANGED undo

\* a caller enters create_user(conn, UserInsert { email: e })
create_user_call(c, e) ==
    /\ pc[c] = "idle"
    /\ Cardinality(Assigned) + Cardinality({d \in Conns : pc[d] = "insert"}) < MaxId
    /\ pc' = [pc EXCEPT ![c] = "insert"]
    /\ new_user_form' = [new_user_form EXCEPT ![c] = e]
    /\ inserted' = [inserted EXCEPT ![c] = NoRow]
    /\ UNCHANGED <<table, seq, last_rowid, now, new_user_id, ret, deleted>>
    /\ undo' = [undo EXCEPT ![c] = UndoLive(table)]

\* variant: the error of the insert is dropped instead of returned
create_user_insert_unchecked(c) ==
    /\ pc[c] = "insert"
    /\ IF EmailTaken(new_user_form[c])
       THEN UNCHANGED <<table, seq, last_rowid, inserted, undo>>
       ELSE LET row == Row(NextRowId, new_user_form[c], CurrentTimestamp)
            IN /\ table' = table \cup {row}
               /\ seq' = NextRowId
               /\ last_rowid' = [last_rowid EXCEPT ![c] = NextRowId]
               /\ inserted' = [inserted EXCEPT ![c] = row]
               /\ undo' = UndoAfterInsert(c)
    /\ pc' = [pc EXCEPT ![c] = "lastid"]
    /\ UNCHANGED <<now, new_user_form, new_user_id, ret, deleted>>


\* variant: the last inserted id is one value shared by all connections
create_user_insert_global(c) ==
    /\ pc[c] = "insert"
    /\ IF EmailTaken(new_user_form[c])
       THEN /\ ret' = [ret EXCEPT ![c] =
                          Err("create", new_user_form[c], 0, "ConstraintViolation")]
            /\ pc' = [pc EXCEPT ![c] = "done"]
            /\ undo' = [undo EXCEPT ![c] = UndoNone]
            /\ UNCHANGED <<table, seq, last_rowid, inserted>>
       ELSE LET row == Row(NextRowId, new_user_form[c], CurrentTimestamp)
            IN /\ table' = table \cup {row}
               /\ seq' = NextRowId
               /\ last_rowid' = [d \in Conns |-> NextRowId]
               /\ inserted' = [inserted EXCEPT ![c] = row]
               /\ pc' = [pc EXCEPT ![c] = "lastid"]
               /\ undo' = UndoAfterInsert(c)
               /\ UNCHANGED ret
    /\ UNCHANGED <<now, new_user_form, new_user_id, deleted>>

\* diesel::insert_into(users).values(&new_user_form).execute(conn)?
create_user_insert(c) ==
    /\ pc[c] = "insert"
    /\ IF EmailTaken(new_user_form[c])
       THEN /\ ret' = [ret EXCEPT ![c] =
                          Err("create", new_user_form[c], 0, "ConstraintViolation")]
            /\ pc' = [pc EXCEPT ![c] = "done"]
            /\ undo' = [undo EXCEPT ![c] = UndoNone]
            /\ UNCHANGED <<table, seq, last_rowid, inserted>>
       ELSE LET row == Row(NextRowId, new_user_form[c], CurrentTimestamp)
            IN /\ table' = table \cup {row}
               /\ seq' = NextRowId
               /\ last_rowid' = [last_rowid EXCEPT ![c] = NextRowId]
               /\ inserted' = [inserted EXCEPT ![c] = row]
               /\ pc' = [pc EXCEPT ![c] = "lastid"]
               /\ undo' = UndoAfterInsert(c)
               /\ UNCHANGED ret
    /\ UNCHANGED <<now, new_user_form, new_user_id, deleted>>

\* variant: the newest row of the table (users.order(id.desc()).first) instead
\* of the connection's last_insert_rowid
create_user_max_id(c) ==
    /\ pc[c] = "lastid"
    /\ new_user_id' = [new_user_id EXCEPT ![c] =
           IF table = {} THEN I64(0, 0)
           ELSE (CHOOSE r \in table : \A q \in table : I64Leq(q.id, r.id)).id]
    /\ pc' = [pc EXCEPT ![c] = "fetch"]
    /\ UNCHANGED <<table, seq, last_rowid, now, new_user_form, ret,
                   inserted, deleted>>
    /\ UNCHANGED undo

\* let new_user_id: i64 = diesel::select(last_insert_rowid).first(conn)?
create_user_last_insert_rowid(c) ==
    /\ pc[c] = "lastid"
    /\ new_user_id' = [new_user_id EXCEPT ![c] = last_rowid[c]]
    /\ pc' = [pc EXCEPT ![c] = "fetch"]
    /\ UNCHANGED <<table, seq, last_rowid, now, new_user_form, ret,
                   inserted, deleted>>
    /\ UNCHANGED undo

\* variant: the result is built from the arguments, not read back from the store
create_user_find_local(c) ==
    /\ pc[c] = "fetch"
    /\ ret' = [ret EXCEPT ![c] =
                  Ok("create", new_user_form[c], 0,
                     [id |-> AsI32(new_user_id[c]), email |-> new_user_form[c],
                      created_at |-> UtcNow], {})]
    /\ pc' = [pc EXCEPT ![c] = "done"]
    /\ new_user_id' = [new_user_id EXCEPT ![c] = I64(0, 0)]
    /\ UNCHANGED <<table, seq, last_rowid, now, new_user_form, inserted, deleted>>
    /\ undo' = UndoAfterFind(c, ret'[c])

\* variant: a missing row is swallowed (.optional() and a default row)
create_user_find_optional(c) ==
    /\ pc[c] = "fetch"
    /\ LET found == Find(AsI32(new_user_id[c]))
       IN IF found = {}
          THEN ret' = [ret EXCEPT ![c] =
                          Ok("create", new_user_form[c], 0, NoUser, {})]
          ELSE \E r \in found :
                   ret' = [ret EXCEPT ![c] =
                              Ok("create", new_user_form[c], 0, User(r), {})]
    /\ pc' = [pc EXCEPT ![c] = "done"]
    /\ new_user_id' = [new_user_id EXCEPT ![c] = I64(0, 0)]
    /\ UNCHANGED <<table, seq, last_rowid, now, new_user_form, inserted, deleted>>
    /\ undo' = UndoAfterFind(c, ret'[c])


\* variant: the first row of the table (users.first) instead of users.find(id)
create_user_find_first(c) ==
    /\ pc[c] = "fetch"
    /\ IF table = {}
       THEN ret' = [ret EXCEPT ![c] =
                       Err("create", new_user_form[c], 0, "NotFound")]
       ELSE \E r \in {x \in table : \A q \in table : I64Leq(x.id, q.id)} :
                ret' = [ret EXCEPT ![c] =
                           Ok("create", new_user_form[c], 0, User(r), {})]
    /\ pc' = [pc EXCEPT ![c] = "done"]
    /\ new_user_id' = [new_user_id EXCEPT ![c] = I64(0, 0)]
    /\ UNCHANGED <<table, seq, last_rowid, now, new_user_form, inserted, deleted>>
    /\ undo' = UndoAfterFind(c, ret'[c])

\* let last_insert_user: User = users.find(new_user_id as i32).first(conn)?
\* Ok(last_insert_user)
create_user_find(c) ==
    /\ pc[c] = "fetch"
    /\ LET found == Find(AsI32(new_user_id[c]))
       IN IF found = {}
          THEN ret' = [ret EXCEPT ![c] =
                          Err("create", new_user_form[c], 0, "NotFound")]
          ELSE \E r \in found :
                   ret' = [ret EXCEPT ![c] =
                              Ok("create", new_user_form[c], 0, User(r), {})]
    /\ pc' = [pc EXCEPT ![c] = "done"]
    /\ new_user_id' = [new_user_id EXCEPT ![c] = I64(0, 0)]
    /\ UNCHANGED <<table, seq, last_rowid, now, new_user_form, inserted, deleted>>
    /\ undo' = UndoAfterFind(c, ret'[c])

\* variant: only the first row is loaded (.first instead of .load)
read_users_first(c) ==
    /\ pc[c] = "idle"
    /\ \E rs \in {{r} : r \in table} \cup {{}} :
          /\ (rs = {}) = (table = {})
          /\ ret' = [ret EXCEPT ![c] = Ok("read", "", 0, NoUser, {User(r) : r \in rs})]
    /\ pc' = [pc EXCEPT ![c] = "done"]
    /\ UNCHANGED <<new_user_form, inserted, table, seq, last_rowid, now, new_user_id, deleted>>
    /\ UNCHANGED undo


\* variant: one row is skipped (.offset(1) before .load)
read_users_offset(c) ==
    /\ pc[c] = "idle"
    /\ \E rs \in {table \ {r} : r \in table} \cup {{}} :
          /\ (table = {}) => (rs = {})
          /\ (table # {}) => (rs # table)
          /\ ret' = [ret EXCEPT ![c] = Ok("read", "", 0, NoUser, {User(r) : r \in rs})]
    /\ pc' = [pc EXCEPT ![c] = "done"]
    /\ UNCHANGED <<new_user_form, inserted, table, seq, last_rowid, now, new_user_id, deleted>>
    /\ UNCHANGED undo

\* Ok(users.load::<User>(conn)?)
read_users(c) ==
    /\ pc[c] = "idle"
    /\ ret' = [ret EXCEPT ![c] = Ok("read", "", 0, NoUser, {User(r) : r \in table})]
    /\ pc' = [pc EXCEPT ![c] = "done"]
    /\ UNCHANGED <<new_user_form, inserted, table, seq, last_rowid, now, new_user_id, deleted>>
    /\ UNCHANGED undo

\* variant: the store's CURRENT_TIMESTAMP (whole seconds) instead of Utc::now()
update_user_created_at_seconds(c, user_id) ==
    /\ pc[c] = "idle"
    /\ table' = {IF r.id = FromI32(user_id)
                 THEN Row(r.id, r.email, CurrentTimestamp) ELSE r : r \in table}
    /\ ret' = [ret EXCEPT ![c] = Ok("update", "", user_id, NoUser, {})]
    /\ pc' = [pc EXCEPT ![c] = "done"]
    /\ UNCHANGED <<new_user_form, inserted, seq, last_rowid, now, new_user_id, deleted>>
    /\ undo' = UndoAfterUpdate(c, user_id)

\* variant: the filter on id is missing, every row is updated
update_user_created_at_all(c, user_id) ==
    /\ pc[c] = "idle"
    /\ table' = {Row(r.id, r.email, UtcNow) : r \in table}
    /\ ret' = [ret EXCEPT ![c] = Ok("update", "", user_id, NoUser, {})]
    /\ pc' = [pc EXCEPT ![c] = "done"]
    /\ UNCHANGED <<new_user_form, inserted, seq, last_rowid, now, new_user_id, deleted>>
    /\ undo' = UndoAfterUpdate(c, user_id)

\* diesel::update(users.filter(id.eq(user_id)))
\*     .set(created_at.eq(chrono::Utc::now().naive_utc())).execute(conn)?
update_user_created_at(c, user_id) ==
    /\ pc[c] = "idle"
    /\ table' = {IF r.id = FromI32(user_id) THEN Row(r.id, r.email, UtcNow) ELSE r
                 : r \in table}
    /\ ret' = [ret EXCEPT ![c] = Ok("update", "", user_id, NoUser, {})]
    /\ pc' = [pc EXCEPT ![c] = "done"]
    /\ UNCHANGED <<new_user_form, inserted, seq, last_rowid, now, new_user_id, deleted>>
    /\ undo' = UndoAfterUpdate(c, user_id)

\* variant: the whole table is deleted (diesel::delete(users), as main does first)
delete_user_all(c, user_id) ==
    /\ pc[c] = "idle"
    /\ table' = {}
    /\ deleted' = deleted \cup {r.id : r \in table}
    /\ ret' = [ret EXCEPT ![c] = Ok("delete", "", user_id, NoUser, {})]
    /\ pc' = [pc EXCEPT ![c] = "done"]
    /\ UNCHANGED <<new_user_form, inserted, seq, last_rowid, now, new_user_id>>
    /\ undo' = UndoAfterDelete(c, user_id)


\* variant: the filter is inverted (id.ne(user_id)), the other rows are deleted
delete_user_others(c, user_id) ==
    /\ pc[c] = "idle"
    /\ table' = Find(user_id)
    /\ deleted' = deleted \cup {r.id : r \in table \ Find(user_id)}
    /\ ret' = [ret EXCEPT ![c] = Ok("delete", "", user_id, NoUser, {})]
    /\ pc' = [pc EXCEPT ![c] = "done"]
    /\ UNCHANGED <<new_user_form, inserted, seq, last_rowid, now, new_user_id>>
    /\ undo' = UndoAfterDelete(c, user_id)

\* diesel::delete(users.find(user_id)).execute(conn)?
delete_user_by_user_id(c, user_id) ==
    /\ pc[c] = "idle"
    /\ table' = table \ Find(user_id)
    /\ deleted' = deleted \cup {r.id : r \in Find(user_id)}
    /\ ret' = [ret EXCEPT ![c] = Ok("delete", "", user_id, NoUser, {})]
    /\ pc' = [pc EXCEPT ![c] = "done"]
    /\ UNCHANGED <<new_user_form, inserted, seq, last_rowid, now, new_user_id>>
    /\ undo' = UndoAfterDelete(c, user_id)


\* `?` on a statement of create_user that the store fails with a connection
\* error: the statement has no effect and create_user returns the error
create_user_statement_fails(c, at) ==
    /\ pc[c] = at
    /\ ret' = [ret EXCEPT ![c] = Err("create", new_user_form[c], 0, "ConnectionError")]
    /\ pc' = [pc EXCEPT ![c] = "done"]
    /\ new_user_id' = [new_user_id EXCEPT ![c] = I64(0, 0)]
    /\ undo' = [undo EXCEPT ![c] = UndoNone]
    /\ UNCHANGED <<table, seq, last_rowid, now, new_user_form, inserted, deleted>>

\* diesel::insert_into(users).values(&new_user_form).execute(conn)? fails
create_user_insert_fails(c) == create_user_statement_fails(c, "insert")

\* diesel::select(last_insert_rowid).first(conn)? fails
create_user_last_insert_rowid_fails(c) == create_user_statement_fails(c, "lastid")

\* users.find(new_user_id as i32).first(conn)? fails
create_user_find_fails(c) == create_user_statement_fails(c, "fetch")

\* `?` on the one statement of read_users, update_user_created_at or
\* delete_user_by_user_id that the store fails with a connection error
statement_fails(c, op, k) ==
    /\ pc[c] = "idle"
    /\ ret' = [ret EXCEPT ![c] = Err(op, "", k, "ConnectionError")]
    /\ pc' = [pc EXCEPT ![c] = "done"]
    /\ UNCHANGED <<table, seq, last_rowid, now, new_user_form, new_user_id,
                   inserted, deleted, undo>>

read_users_fails(c) == statement_fails(c, "read", 0)

update_user_created_at_fails(c, user_id) == statement_fails(c, "update", user_id)

delete_user_by_user_id_fails(c, user_id) == statement_fails(c, "delete", user_id)

\* the call returns: the caller keeps a created user (let last_insert_user =
\* create_user(..)?) and drops any other result; the locals of the call are gone
Return(c) ==
    /\ pc[c] = "done"
    /\ pc' = [pc EXCEPT ![c] = "idle"]
    /\ ret' = [ret EXCEPT ![c] = IF ret[c].op = "create" THEN ret[c] ELSE NoRet]
    /\ new_user_form' = [new_user_form EXCEPT ![c] = ""]
    /\ inserted' = [inserted EXCEPT ![c] = NoRow]
    /\ UNCHANGED <<table, seq, last_rowid, now, new_user_id, deleted>>
    /\ undo' = [undo EXCEPT ![c] = IF @.phase = "undone" THEN UndoNone ELSE @]

\* the emails create_user was ever called with, when no row is ever deleted
UsedEmails == {r.email : r \in table} \cup {new_user_form[c] : c \in Conns}

\* a caller that never reuses an email (its own or another caller's)
create_user_call_distinct(c, e) ==
    /\ e \notin UsedEmails
    /\ create_user_call(c, e)


\* a caller enters create_user in a run that only creates (more ids, more emails)
create_user_call_more(c, e) ==
    /\ pc[c] = "idle"
    /\ Cardinality(Assigned) + Cardinality({d \in Conns : pc[d] = "insert"}) < MaxInserts
    /\ pc' = [pc EXCEPT ![c] = "insert"]
    /\ new_user_form' = [new_user_form EXCEPT ![c] = e]
    /\ inserted' = [inserted EXCEPT ![c] = NoRow]
    /\ undo' = [undo EXCEPT ![c] = UndoLive(table)]
    /\ UNCHANGED <<table, seq, last_rowid, now, new_user_id, ret, deleted>>

\* -------------------------------------------------------- specifications
CreateSteps(c) ==
    \/ create_user_insert(c)
    \/ create_user_last_insert_rowid(c)
    \/ create_user_find(c)
    \/ Return(c)

Step(c) ==
    \/ \E e \in Emails : create_user_call(c, e)
    \/ CreateSteps(c)
    \/ read_users(c)
    \/ \E k \in UserIds : update_user_created_at(c, k)
    \/ \E k \in UserIds : delete_user_by_user_id(c, k)

\* every connection runs any of the operations, interleaved statement by statement
Next ==
    \/ Tick
    \/ \E c \in Conns : Step(c)

Spec == Init /\ [][Next]_vars

\* one connection alone, one call at a time (the setting of main)
NextSeq ==
    \/ Tick
    \/ Step(1)

SpecSeq == Init /\ [][NextSeq]_vars

\* concurrent callers, each on its own connection, creating distinct emails
NextCreate ==
    \/ Tick
    \/ \E c \in Conns : \E e \in Emails : create_user_call_distinct(c, e)
    \/ \E c \in Conns : CreateSteps(c)

SpecCreate == Init /\ [][NextCreate]_vars


\* every connection only creates, one call at a time, with any email
NextInsert ==
    \/ Tick
    \/ \E c \in Conns : \E e \in MoreEmails : create_user_call_more(c, e)
    \/ \E c \in Conns : CreateSteps(c)

SpecInsert == Init /\ [][NextInsert]_vars


\* a statement of connection c fails
Fails(c) ==
    \/ create_user_insert_fails(c)
    \/ create_user_last_insert_rowid_fails(c)
    \/ create_user_find_fails(c)
    \/ read_users_fails(c)
    \/ \E k \in UserIds : update_user_created_at_fails(c, k)
    \/ \E k \in UserIds : delete_user_by_user_id_fails(c, k)

\* as Spec, and any statement may fail with a connection error
NextFail ==
    \/ Tick
    \/ \E c \in Conns : Step(c)
    \/ \E c \in Conns : Fails(c)

SpecFail == Init /\ [][NextFail]_vars


\* a store that has handed out ids up to i32::MAX - 1 before: main deletes
\* every row when it starts (diesel::delete(users)), the AUTOINCREMENT
\* high-water mark stays
InitWide ==
    /\ table = {}
    /\ seq = I64(0, I32Max - 1)
    /\ last_rowid = [c \in Conns |-> I64(0, 0)]
    /\ now \in 0..1
    /\ pc = [c \in Conns |-> "idle"]
    /\ new_user_form = [c \in Conns |-> ""]
    /\ new_user_id = [c \in Conns |-> I64(0, 0)]
    /\ ret = [c \in Conns |-> NoRet]
    /\ inserted = [c \in Conns |-> NoRow]
    /\ deleted = {}
    /\ undo = [c \in Conns |-> UndoNone]

\* concurrent creates on that store
SpecWide == InitWide /\ [][NextCreate]_vars

\* ---------------------------------------------------------------- claims
\* a finished create_user call of connection c
CreateDone(c) == pc[c] = "done" /\ ret[c].op = "create"

\* C1: concurrent callers, each on its own connection and each creating a
\* distinct email: every create_user succeeds and returns the row that caller
\* inserted (its email, the id the store gave its insert), never another's.
C1_CreateReturnsOwnRow ==
    \A c \in Conns :
        CreateDone(c) =>
            /\ ret[c].kind = "Ok"
            /\ inserted[c] # NoRow
            /\ ret[c].user = User(inserted[c])
            /\ ret[c].user.email = new_user_form[c]
            /\ FromI32(ret[c].user.id) = inserted[c].id
            /\ \A d \in Conns \ {c} : ret[c].user # User(inserted[d])

\* both connections finished a create; the first got id 1, the second id 2
C1_Witness ==
    /\ CreateDone(1) /\ ret[1].kind = "Ok" /\ ret[1].user.id = 1
    /\ CreateDone(2) /\ ret[2].kind = "Ok" /\ ret[2].user.id = 2
    /\ ret[1].user.email # ret[2].user.email

\* C2: create_user called twice in a row with the same email: the second call
\* fails with a constraint violation and the table still holds exactly one row
\* with that email, the unchanged row of the first call.
C2_DuplicateEmailRejected ==
    [][\A c \in Conns :
          (/\ create_user_insert(c)
           /\ ret[c].op = "create" /\ ret[c].kind = "Ok"
           /\ ret[c].arg_email = new_user_form[c])
          => /\ ret'[c] = Err("create", new_user_form[c], 0, "ConstraintViolation")
             /\ pc'[c] = "done"
             /\ table' = table
             /\ {User(r) : r \in {x \in table' : x.email = new_user_form[c]}}
                    = {ret[c].user}]_vars

\* a create was rejected and one row with its email is in the table
C2_Witness ==
    \E c \in Conns :
        /\ CreateDone(c) /\ ret[c].err = "ConstraintViolation"
        /\ Cardinality({r \in table : r.email = ret[c].arg_email}) = 1

\* C3: create_user is atomic with respect to other connections: once its
\* insert has happened, whatever the others do before its fetch, it succeeds
\* and returns the row it inserted (email, id and created_at of the insertion).
C3_CreateAtomic ==
    \A c \in Conns :
        (CreateDone(c) /\ inserted[c] # NoRow) =>
            (ret[c].kind = "Ok" /\ ret[c].user = User(inserted[c]))

\* C4: when create_user returns user U, a fetch by primary key U.id in the
\* state the call leaves returns exactly one row, equal to U in id, email and
\* created_at.
C4_FetchAfterCreate ==
    [][\A c \in Conns :
          (create_user_find(c) /\ ret'[c].kind = "Ok")
          => {User(r) : r \in FindIn(table', ret'[c].user.id)} = {ret'[c].user}]_vars

\* a create returned a row while another row is in the table too
C4_Witness ==
    \E c \in Conns :
        /\ CreateDone(c) /\ ret[c].kind = "Ok"
        /\ Find(ret[c].user.id) # {}
        /\ Cardinality(table) = 2

\* C5: on one connection, a successful create_user(e) followed by read_users
\* yields exactly one row with email e; it has a non-null created_at and the
\* id create_user returned.
C5_ReadAfterCreate ==
    [][\A c \in Conns :
          (read_users(c) /\ ret[c].op = "create" /\ ret[c].kind = "Ok")
          => LET hits == {u \in ret'[c].rows : u.email = ret[c].arg_email}
             IN /\ ret'[c].kind = "Ok"
                /\ Cardinality(hits) = 1
                /\ \A u \in hits : u.created_at # NULL /\ u.id = ret[c].user.id]_vars

\* a read that lists two rows, one of them the row of an earlier create
C5_Witness ==
    \E c \in Conns :
        /\ pc[c] = "done" /\ ret[c].op = "read"
        /\ Cardinality(ret[c].rows) = 2
        /\ ret[c].rows = {User(r) : r \in table}

\* C6: in every reachable state no two rows share an id, no two rows share an
\* email and every row has a non-null created_at.
C6_TableInvariant ==
    /\ \A r, q \in table : (r.id = q.id \/ r.email = q.email) => r = q
    /\ \A r \in table : r.created_at # NULL /\ r.email # ""

\* two rows, one of them with an updated timestamp
C6_Witness ==
    /\ Cardinality(table) = 2
    /\ \E r \in table : r.created_at % TicksPerSec # 0

\* C7: update_user_created_at(k) on an existing row, the clock being past the
\* row's created_at, leaves the row with a created_at that is >= the old value
\* and differs from it.
C7_UpdateAdvancesTimestamp ==
    [][\A c \in Conns : \A k \in UserIds :
          update_user_created_at(c, k)
          => \A r \in Find(k) :
                 now > r.created_at
                 => /\ FindIn(table', k) # {}
                    /\ \A q \in FindIn(table', k) :
                           /\ q.created_at >= r.created_at
                           /\ q.created_at # r.created_at]_vars

\* an update has moved a row's created_at off the second of its insertion
C7_Witness ==
    \E c \in Conns :
        /\ pc[c] = "done" /\ ret[c].op = "update"
        /\ \E r \in Find(ret[c].arg_id) :
               r.created_at = now /\ r.created_at % TicksPerSec # 0

\* C8: update_user_created_at(k) changes at most the created_at of the one row
\* with id k: ids and emails, every other row, the set of rows and every
\* connection's last-insert-id stay; with no row k it succeeds, table unchanged.
C8_UpdateFrame ==
    [][\A c \in Conns : \A k \in UserIds :
          update_user_created_at(c, k)
          => /\ ret'[c].kind = "Ok" /\ ret'[c].op = "update"
             /\ \A r \in table : r.id # FromI32(k) => r \in table'
             /\ {<<r.id, r.email>> : r \in table'} = {<<r.id, r.email>> : r \in table}
             /\ Cardinality(table') = Cardinality(table)
             /\ last_rowid' = last_rowid
             /\ seq' = seq
             /\ (Find(k) = {} => table' = table)]_vars

\* an update of one of two rows has returned
C8_Witness ==
    \E c \in Conns :
        /\ pc[c] = "done" /\ ret[c].op = "update" /\ ret[c].kind = "Ok"
        /\ Find(ret[c].arg_id) # {}
        /\ Cardinality(table) = 2

\* C9: delete_user_by_user_id(k) succeeds and leaves the table as it was minus
\* the row with id k (unchanged when there is none); other rows are untouched
\* and the deleted row is in no later read_users result.
C9_DeleteFrame ==
    [][/\ \A c \in Conns : \A k \in UserIds :
             delete_user_by_user_id(c, k)
             => /\ ret'[c].kind = "Ok" /\ ret'[c].op = "delete"
                /\ table' = {r \in table : r.id # FromI32(k)}
                /\ (Find(k) = {} => table' = table)
                /\ Cardinality(table) - Cardinality(table') \in {0, 1}
       /\ \A c \in Conns :
             read_users(c)
             => \A u \in ret'[c].rows : FromI32(u.id) \notin deleted]_vars

\* a delete removed one row and left another
C9_Witness ==
    \E c \in Conns :
        /\ pc[c] = "done" /\ ret[c].op = "delete" /\ ret[c].kind = "Ok"
        /\ FromI32(ret[c].arg_id) \in deleted
        /\ table # {}

\* C10: when the fetch of create_user finds no row for the id it got from
\* last_insert_rowid, create_user returns the error NotFound, not a row.
C10_NotFoundPropagates ==
    [][\A c \in Conns :
          (create_user_find(c) /\ Find(AsI32(new_user_id[c])) = {})
          => ret'[c] = Err("create", new_user_form[c], 0, "NotFound")]_vars

\* a create has returned NotFound: its row was deleted before the fetch
C10_Witness ==
    \E c \in Conns :
        /\ CreateDone(c) /\ ret[c].err = "NotFound"
        /\ inserted[c] # NoRow /\ inserted[c].id \in deleted

\* C11: read_users returns exactly the rows in the table at the time of the
\* call (every row, no extra row, each with its current id, email and
\* created_at) and changes neither the table nor any last-insert-id.
C11_ReadAllExact ==
    [][\A c \in Conns :
          read_users(c)
          => /\ ret'[c].kind = "Ok" /\ ret'[c].op = "read"
             /\ \A r \in table : \E u \in ret'[c].rows :
                    /\ FromI32(u.id) = r.id
                    /\ u.email = r.email
                    /\ u.created_at = r.created_at
             /\ \A u \in ret'[c].rows : \E r \in table :
                    /\ FromI32(u.id) = r.id
                    /\ u.email = r.email
                    /\ u.created_at = r.created_at
             /\ Cardinality(ret'[c].rows) = Cardinality(table)
             /\ table' = table
             /\ seq' = seq
             /\ last_rowid' = last_rowid]_vars

\* a read has listed a table in which one row carries an updated timestamp
C11_Witness ==
    \E c \in Conns :
        /\ pc[c] = "done" /\ ret[c].op = "read"
        /\ ret[c].rows # {}
        /\ \E u \in ret[c].rows : u.created_at % TicksPerSec # 0
        /\ \A d \in Conns : last_rowid[d] # I64(0, 0)

\* C12: a connection's last-insert-id is the id generated by the most recent
\* successful insert on that same connection: a successful insert sets it to
\* the id of the row it added, and no other step (a failed insert, an update,
\* a delete, any step of another connection) changes it.
C12_LastInsertIdLocal ==
    [][\A c \in Conns :
          IF create_user_insert(c) /\ table' # table
          THEN /\ \E r \in table' \ table :
                     /\ table' \ table = {r}
                     /\ r.email = new_user_form[c]
                     /\ last_rowid'[c] = r.id
               /\ \A d \in Conns \ {c} : last_rowid'[d] = last_rowid[d]
          ELSE (\A d \in Conns : ~(create_user_insert(d) /\ table' # table))
               => last_rowid'[c] = last_rowid[c]]_vars

\* both connections have inserted; the second one's row has been deleted since
C12_Witness ==
    /\ last_rowid[1] = I64(0, 1)
    /\ last_rowid[2] = I64(0, 2)
    /\ I64(0, 2) \in deleted
    /\ \E r \in table : r.id = I64(0, 1)

\* C13: ids are assigned monotonically and never change: every successful
\* create_user gets an id strictly greater than every id assigned before it,
\* ids of deleted rows included, so a deleted id never reappears; and no
\* operation changes the id of an existing row.
C13_IdsMonotonic ==
    [][/\ \A c \in Conns :
             (create_user_insert(c) /\ table' # table)
             => \A r \in table' \ table : \A i \in Assigned \cup {seq} :
                    I64Leq(i, r.id) /\ i # r.id
       /\ \A r \in table : \A q \in table' : q.email = r.email => q.id = r.id
       /\ \A q \in table' : q.id \notin deleted'
       /\ Cardinality({q.id : q \in table'} \ {r.id : r \in table}) <= 1]_vars

\* a row is in the table whose id is above the id of a deleted row
C13_Witness ==
    /\ deleted # {}
    /\ \E r \in table : \A i \in deleted : I64Leq(i, r.id) /\ i # r.id
    /\ \E c \in Conns : inserted[c] \in table

\* C14: create_user calls issued on one connection one at a time each return
\* the row they inserted themselves, however many inserts other connections
\* perform in between (a call whose insert is rejected returns that error).
C14_SequentialCreates ==
    \A c \in Conns :
        CreateDone(c) =>
            IF inserted[c] = NoRow
            THEN ret[c] = Err("create", new_user_form[c], 0, "ConstraintViolation")
            ELSE /\ ret[c] = Ok("create", new_user_form[c], 0, User(inserted[c]), {})
                 /\ inserted[c].id = last_rowid[c]
                 /\ inserted[c] \in table

\* three inserts over two connections: the first connection's latest create
\* returned id 3 after the second connection inserted id 2
C14_Witness ==
    /\ Cardinality(table) = 3
    /\ CreateDone(1) /\ ret[1].kind = "Ok" /\ ret[1].user.id = 3
    /\ last_rowid[2] = I64(0, 2)

\* the step ends the call of connection c with an error
EndsInError(c) == pc[c] # "done" /\ pc'[c] = "done" /\ ret'[c].kind = "Err"

\* the statements of a call in their order: none is run again, none is skipped
PcOrder ==
    {<<"idle", "insert">>, <<"insert", "lastid">>, <<"lastid", "fetch">>,
     <<"fetch", "done">>, <<"insert", "done">>, <<"lastid", "done">>,
     <<"idle", "done">>, <<"done", "idle">>}

\* C15: the first failing statement ends the call with that error: the failing
\* statement has no effect, no later statement runs and none is run again; a
\* create_user whose insert fails does not query last_insert_rowid and returns
\* no row, in particular not the row of the connection's earlier insert.
C15_FirstErrorEndsCall ==
    [][\A c \in Conns :
          /\ pc'[c] # pc[c] => <<pc[c], pc'[c]>> \in PcOrder
          /\ EndsInError(c)
             => /\ ret'[c].user = NoUser /\ ret'[c].rows = {}
                /\ table' = table /\ seq' = seq /\ last_rowid' = last_rowid
          /\ (pc[c] = "insert" /\ pc'[c] # "insert" /\ inserted'[c] = NoRow)
             => /\ EndsInError(c)
                /\ ret'[c].err \in {"ConstraintViolation", "ConnectionError"}
                /\ new_user_id'[c] = new_user_id[c]
          /\ (pc[c] # "done" /\ pc'[c] = "done"
              /\ ret'[c].op = "create" /\ ret'[c].kind = "Ok")
             => (inserted'[c] # NoRow /\ pc[c] = "fetch")]_vars

\* a create_user failed at its insert on a connection whose earlier insert is
\* still in the table
C15_Witness ==
    \E c \in Conns :
        /\ CreateDone(c) /\ ret[c].kind = "Err" /\ inserted[c] = NoRow
        /\ \E r \in table : r.id = last_rowid[c]

\* C17: whenever create_user returns an error (at the insert, the
\* last_insert_rowid or the fetch), the table holds no row added by that call.
C17_FailedCreateAddsNoRow ==
    \A c \in Conns :
        (CreateDone(c) /\ ret[c].kind = "Err")
        => (inserted[c] = NoRow \/ \A r \in table : r.id # inserted[c].id)

\* C16: create_user followed by delete_user_by_user_id of the returned id,
\* with at most updates of that user in between and no other write, restores
\* the rows that existed before the create_user; from an empty table, create,
\* update and delete leave the table empty.
C16_CreateDeleteRestores ==
    \A c \in Conns :
        undo[c].phase = "undone"
        => /\ table = undo[c].rows
           /\ Find(undo[c].id) = {}
           /\ FromI32(undo[c].id) \in deleted

\* a user was created next to an existing row, updated and deleted again
C16_Witness ==
    \E c \in Conns :
        /\ undo[c].phase = "undone" /\ undo[c].updated
        /\ undo[c].rows # {}
        /\ pc[c] = "done" /\ ret[c].op = "delete"

\* C18: the id create_user fetches by equals the value last_insert_rowid
\* returned: narrowing the 64-bit value to the 32-bit id does not change it.
C18_NarrowingExact ==
    \A c \in Conns :
        pc[c] = "fetch" => FromI32(AsI32(new_user_id[c])) = new_user_id[c]

====
